---- MODULE Spec2Model ----
(***************************************************************************)
(* Serial handshake of rusefi/sandbox: bootloader probe (checkOpenBLT),    *)
(* identity request (getSignature, makeCrc32Packet, calculateCrc32) and    *)
(* the connection handler (connectAndSendMessage), in the two variants the *)
(* repository holds: the binary one (src/unnamed/part_000 with             *)
(* src/unnamed/part_001) and the text-stream one (src/www/script.js).      *)
(* Two smaller specifications stand beside the handshake: CodecSpec, the   *)
(* calls of crc32.js on arguments of their own, and WsSpec, the session of *)
(* src/www/webserial/index.js with the write functions it installs.        *)
(*                                                                         *)
(* One action of the model is one JavaScript task: the event that wakes    *)
(* the handler (a chunk delivered, end of stream, a timer, a write         *)
(* accepted) together with all the synchronous code and promise reactions  *)
(* that run before the handler suspends on the next external event.        *)
(***************************************************************************)
EXTENDS Integers, Sequences, FiniteSets, TLC

\* ------------------------------------------------------------------------
\* Bounds of the model
\* ------------------------------------------------------------------------

\* largest number of bytes the transport hands over in one chunk
MaxChunk == 8

\* largest number of chunks waiting unread in the readable stream
MaxQueue == 2

\* ------------------------------------------------------------------------
\* 32-bit integer arithmetic of JavaScript.  A number n of the checksum code
\* is the pair <<h, l>> with n = h * 65536 + l and l in 0..65535; h is
\* negative exactly when n is.
\* ------------------------------------------------------------------------

Half == 65536

Num(n) == << n \div Half, n % Half >>

\* ToUint32 of the language: the value modulo 2^32
ToUint32(w) == << w[1] % Half, w[2] >>

\* ToInt32 of the language: the value modulo 2^32, taken in -2^31 .. 2^31 - 1
ToInt32(w) ==
    << IF w[1] % Half >= 32768 THEN (w[1] % Half) - Half ELSE w[1] % Half, w[2] >>

RECURSIVE XorBits(_, _, _)
XorBits(a, b, n) ==
    IF n = 0 THEN 0
    ELSE (((a % 2) + (b % 2)) % 2) + 2 * XorBits(a \div 2, b \div 2, n - 1)

RECURSIVE AndBits(_, _, _)
AndBits(a, b, n) ==
    IF n = 0 THEN 0
    ELSE ((a % 2) * (b % 2)) + 2 * AndBits(a \div 2, b \div 2, n - 1)

\* the two operators on 4-bit numbers, tabulated
XorNibble == [a \in 0..15 |-> [b \in 0..15 |-> XorBits(a, b, 4)]]

AndNibble == [a \in 0..15 |-> [b \in 0..15 |-> AndBits(a, b, 4)]]

\* the two operators on 16-bit numbers, 4 bits at a time
Xor16(a, b) ==
    XorNibble[a % 16][b % 16]
    + 16 * XorNibble[(a \div 16) % 16][(b \div 16) % 16]
    + 256 * XorNibble[(a \div 256) % 16][(b \div 256) % 16]
    + 4096 * XorNibble[a \div 4096][b \div 4096]

And16(a, b) ==
    AndNibble[a % 16][b % 16]
    + 16 * AndNibble[(a \div 16) % 16][(b \div 16) % 16]
    + 256 * AndNibble[(a \div 256) % 16][(b \div 256) % 16]
    + 4096 * AndNibble[a \div 4096][b \div 4096]

\* a ^ b : both operands to 32 bits, result int32
JsXor(a, b) ==
    ToInt32(<< Xor16(ToUint32(a)[1], ToUint32(b)[1]), Xor16(a[2], b[2]) >>)

\* a & b : both operands to 32 bits, result int32
JsAnd(a, b) ==
    ToInt32(<< And16(ToUint32(a)[1], ToUint32(b)[1]), And16(a[2], b[2]) >>)

\* a >>> n (0 < n < 16): operand to uint32, zero-fill shift, result uint32
JsUshr(a, n) ==
    << ToUint32(a)[1] \div (2 ^ n),
       (a[2] \div (2 ^ n)) + (ToUint32(a)[1] % (2 ^ n)) * (2 ^ (16 - n)) >>

\* ------------------------------------------------------------------------
\* crc32.js (src/unnamed/part_001)
\* ------------------------------------------------------------------------

\* 0xEDB88320
CRC32_POLY == << 60856, 33568 >>

\* one round of the table loop: c = (c & 1) ? CRC32_POLY ^ (c >>> 1) : c >>> 1
TableStep(c) ==
    IF JsAnd(c, Num(1)) # Num(0) THEN JsXor(CRC32_POLY, JsUshr(c, 1)) ELSE JsUshr(c, 1)

RECURSIVE TableRounds(_, _)
TableRounds(c, k) == IF k = 0 THEN c ELSE TableRounds(TableStep(c), k - 1)

\* the table is a Uint32Array: a store converts to uint32
crc32Table == [i \in 0..255 |-> ToUint32(TableRounds(Num(i), 8))]

\* the body of the loop: crc = (crc >>> 8) ^ crc32Table[(crc ^ byte) & 0xFF]
CrcByte(crc, byte) ==
    JsXor(JsUshr(crc, 8), crc32Table[JsAnd(JsXor(crc, Num(byte)), Num(255))[2]])

\* The loop over data[lo..hi], bytes taken in ascending order.  The range is
\* halved so that the depth of the evaluation grows with the logarithm of the
\* length; the test of first[2], which always holds, makes the value of the
\* first half be computed before the second half is entered.
RECURSIVE CrcLoop(_, _, _, _)
CrcLoop(crc, data, lo, hi) ==
    IF lo > hi THEN crc
    ELSE IF lo = hi THEN CrcByte(crc, data[lo])
    ELSE LET mid == (lo + hi) \div 2
             first == CrcLoop(crc, data, lo, mid)
         IN  IF first[2] >= 0 THEN CrcLoop(first, data, mid + 1, hi) ELSE first

\* let crc = -1; ...; return crc ^ (-1)   (a signed 32-bit number)
calculateCrc32(data) == JsXor(CrcLoop(Num(-1), data, 1, Len(data)), Num(-1))

\* DataView.setUint16(_, v, true): two bytes, low byte first, v taken mod 2^16
SetUint16LE(v) == << (v % Half) % 256, (v % Half) \div 256 >>

\* DataView.setUint32(_, w, true): four bytes, low byte first, w taken mod 2^32
SetUint32LE(w) ==
    << w[2] % 256, w[2] \div 256, ToUint32(w)[1] % 256, ToUint32(w)[1] \div 256 >>

\* DataView.getUint16(0, true)
GetUint16LE(bytes) == bytes[1] + 256 * bytes[2]

\* makeCrc32Packet with the checksum counted in the length field
makeCrc32Packet_LengthWithCrc(command, payload) ==
    LET contentToCrc == <<command>> \o payload
        crc == calculateCrc32(contentToCrc)
    IN  SetUint16LE(Len(contentToCrc) + 4) \o contentToCrc \o SetUint32LE(crc)

\* [length u16 LE] [command] [payload] [crc32 u32 LE]
makeCrc32Packet(command, payload) ==
    LET contentToCrc == <<command>> \o payload
        crc == calculateCrc32(contentToCrc)
    IN  SetUint16LE(Len(contentToCrc)) \o contentToCrc \o SetUint32LE(crc)

\* ------------------------------------------------------------------------
\* Values of the language that the handlers inspect
\* ------------------------------------------------------------------------

Undefined == [t |-> "undefined", v |-> <<>>]

Number(n) == [t |-> "number", v |-> n]

\* a Uint8Array chunk, as port.readable.getReader() hands it over
Bytes(b) == [t |-> "bytes", v |-> b]

\* a string chunk, as the reader of a TextDecoderStream hands it over
String(cs) == [t |-> "string", v |-> cs]

\* value.length
LengthOf(value) == Len(value.v)

\* !value : undefined and the empty string are falsy, a typed array is not
Falsy(value) == value.t = "undefined" \/ (value.t = "string" /\ value.v = <<>>)

\* value[i] with i counted from 0: a number of a typed array, a one-character
\* string of a string, undefined outside the value
At(value, i) ==
    IF value.t \notin {"bytes", "string"} \/ i >= Len(value.v) THEN Undefined
    ELSE IF value.t = "bytes" THEN Number(value.v[i + 1])
    ELSE String(<< value.v[i + 1] >>)

\* a !== b : different types are never equal
StrictNotEqual(a, b) == a.t # b.t \/ a.v # b.v

\* ------------------------------------------------------------------------
\* UTF-8 decoding (TextDecoder, TextDecoderStream): the decoder of the
\* Encoding standard; a string is its sequence of UTF-16 code units
\* ------------------------------------------------------------------------

Replacement == 65533

CodeUnits(cp) ==
    IF cp < 65536 THEN << cp >>
    ELSE << 55296 + ((cp - 65536) \div 1024), 56320 + ((cp - 65536) % 1024) >>

RECURSIVE Utf8Run(_, _, _, _, _, _, _)
Utf8Run(bytes, i, needed, seen, cp, lower, upper) ==
    IF i > Len(bytes) THEN (IF needed # 0 THEN << Replacement >> ELSE <<>>)
    ELSE LET b == bytes[i] IN
      IF needed = 0 THEN
        IF b <= 127 THEN << b >> \o Utf8Run(bytes, i + 1, 0, 0, 0, 128, 191)
        ELSE IF b >= 194 /\ b <= 223 THEN Utf8Run(bytes, i + 1, 1, 0, b % 32, 128, 191)
        ELSE IF b >= 224 /\ b <= 239 THEN
            Utf8Run(bytes, i + 1, 2, 0, b % 16,
                    IF b = 224 THEN 160 ELSE 128, IF b = 237 THEN 159 ELSE 191)
        ELSE IF b >= 240 /\ b <= 244 THEN
            Utf8Run(bytes, i + 1, 3, 0, b % 8,
                    IF b = 240 THEN 144 ELSE 128, IF b = 244 THEN 143 ELSE 191)
        ELSE << Replacement >> \o Utf8Run(bytes, i + 1, 0, 0, 0, 128, 191)
      ELSE IF b < lower \/ b > upper THEN
        << Replacement >> \o Utf8Run(bytes, i, 0, 0, 0, 128, 191)
      ELSE IF seen + 1 = needed THEN
        CodeUnits(cp * 64 + (b % 64)) \o Utf8Run(bytes, i + 1, 0, 0, 0, 128, 191)
      ELSE Utf8Run(bytes, i + 1, needed, seen + 1, cp * 64 + (b % 64), 128, 191)

\* new TextDecoder().decode(bytes)
TextDecode(bytes) == Utf8Run(bytes, 1, 0, 0, 0, 128, 191)

\* ------------------------------------------------------------------------
\* The device and the transport
\* ------------------------------------------------------------------------

\* the openblt announcement of the specification's example, protocol 2.1
MagicHeader == << 80, 0, 73, 0, 2, 1, 255, 255 >>

\* the bytes of a well-formed identity response carrying text
IdentityResponse(text) ==
    SetUint16LE(Len(text)) \o text \o SetUint32LE(calculateCrc32(text))

\* "RU"
IdentityText == << 82, 85 >>

\* the identity response of a device whose identity is "RU"
WellFormedResponse == IdentityResponse(IdentityText)

\* what a device sends unprompted once the port is open
PreStreams ==
    { <<>>,
      MagicHeader,
      << 80, 0, 73, 0, 2, 1, 0, 0 >>,
      << 80, 0, 73, 1, 2, 1, 255, 255 >>,
      << 81, 0, 73, 0, 2, 1, 255, 255 >>,
      << 0, 0, 0, 0, 0, 0, 0, 0 >> }

\* what a device sends once the identity request has reached it
RespStreams ==
    { <<>>,
      WellFormedResponse,
      SubSeq(WellFormedResponse, 1, 5),
      WellFormedResponse \o << 7 >> }

Min(a, b) == IF a < b THEN a ELSE b

\* ------------------------------------------------------------------------
\* State
\* ------------------------------------------------------------------------

VARIABLES
    variant,        \* "binary": part_000 with part_001; "text": www/script.js
    device,         \* [pre, resp]: what the connected device will send
    wire,           \* bytes the device has sent and the transport still holds
    rxQueue,        \* chunks queued in port.readable, not read yet
    rxErrored,      \* the readable stream of the port is errored
    rxClosed,       \* the readable stream has signalled its end
    pc,             \* where connectAndSendMessage is suspended
    probeTimer,     \* the setTimeout of checkOpenBLT
    lenTimer,       \* the setTimeout of getSignature
    probeRace,      \* how the race of checkOpenBLT was settled
    probeChunk,     \* the bytes of the chunk that settled it, if a chunk did
    probe,          \* classification made by checkOpenBLT
    txPending,      \* bytes handed to writer.write, not accepted yet
    txLog,          \* the writes the port has accepted, in order
    locks,          \* handles held on the streams of the port, reads left pending
    lenChunk,       \* the bytes of the chunk given to the read of the length
    length,         \* getSignature: decoded length prefix
    responseBytes,  \* getSignature: the Uint8Array(length + 4)
    bytesRead,      \* getSignature: bytesRead
    sigRead,        \* how the last read of getSignature was settled
    bodyChunks,     \* the chunks given to the body loop of getSignature, joined
    bodyCount,      \* the number of those chunks
    signature,      \* result of getSignature
    caught,         \* the error caught by connectAndSendMessage, if any
    codec,          \* a call of crc32.js: its arguments and its result
    ws              \* the session of webserial/index.js

vars ==
    << variant, device, wire, rxQueue, rxClosed, rxErrored, pc, probeTimer, lenTimer,
       probeRace, probeChunk, probe, txPending, txLog, locks, lenChunk, length,
       responseBytes,
       bytesRead, sigRead, bodyChunks, bodyCount, signature, caught, codec, ws >>

\* what no step of the handshake changes
envVars == << variant, device, codec, ws >>

bodyVars == << length, responseBytes, bytesRead, bodyChunks, bodyCount >>

sigVars == << lenChunk, length, responseBytes, bytesRead, bodyChunks, bodyCount >>

Null == [t |-> "null", v |-> <<>>]

Probing == [state |-> "Probing", major |-> Undefined, minor |-> Undefined]

NotDetected == [state |-> "NotDetected", major |-> Undefined, minor |-> Undefined]

BootloaderDetected(major, minor) ==
    [state |-> "BootloaderDetected", major |-> major, minor |-> minor]

\* no call of crc32.js is under way
NoCall == [call |-> "none", command |-> 0, data |-> <<>>, result |-> Undefined]

\* webserial/index.js before the click: window.webSerialConnected is not
\* set, the two write functions are not defined, no call of them was made
NotCalled == [pc |-> "idle", data |-> <<>>, acquired |-> FALSE, released |-> FALSE]

\* number of calls of the write functions in a session
MaxCalls == 2

\* number of chunks the read loop of index.js takes
MaxPending == 2

NoSession ==
    [connected |-> FALSE, loop |-> "none", readerLocked |-> FALSE,
     writerLocked |-> FALSE, calls |-> [i \in 1..MaxCalls |-> NotCalled],
     portLog |-> <<>>, pendingWebSerialBytes |-> <<>>]

\* the page before the click
Idle ==
    /\ wire = <<>>
    /\ rxQueue = <<>>
    /\ rxClosed = FALSE
    /\ rxErrored = FALSE
    /\ pc = "idle"
    /\ probeTimer = "idle"
    /\ lenTimer = "idle"
    /\ probeRace = "none"
    /\ probeChunk = <<>>
    /\ probe = Probing
    /\ txPending = <<>>
    /\ txLog = <<>>
    /\ locks = [readers |-> 0, writers |-> 0, pending |-> 0]
    /\ lenChunk = <<>>
    /\ length = 0
    /\ responseBytes = <<>>
    /\ bytesRead = 0
    /\ sigRead = [stage |-> "none", how |-> "none"]
    /\ bodyChunks = <<>>
    /\ bodyCount = 0
    /\ signature = Undefined
    /\ caught = "none"

Init ==
    /\ variant \in {"binary", "text"}
    /\ device \in [pre : PreStreams, resp : RespStreams]
    /\ variant = "text" => device.resp = <<>>
    /\ Idle
    /\ codec = NoCall
    /\ ws = NoSession

\* ------------------------------------------------------------------------
\* The reads of the handlers
\* ------------------------------------------------------------------------

\* the chunk as the reader of the variant hands it over
Chunk(v, b) == IF v = "binary" THEN Bytes(b) ELSE String(TextDecode(b))

TimedOut == [kind |-> "timeout", done |-> FALSE, value |-> Undefined]

\* reader.read() settled from the stream: rejected when the stream is
\* errored, else the next chunk, or end of stream
ReadResult ==
    IF rxErrored
    THEN [kind |-> "error", done |-> FALSE, value |-> Undefined]
    ELSE IF rxQueue # <<>>
    THEN [kind |-> "read", done |-> FALSE, value |-> Chunk(variant, Head(rxQueue))]
    ELSE [kind |-> "read", done |-> TRUE, value |-> Undefined]

\* a pending read of the handler can be settled from the stream
ReadReady == rxQueue # <<>> \/ rxClosed \/ rxErrored

\* the handler has a continuation to run; no other task starts before it has
Runnable == pc \in {"probe_wait", "len_wait", "body_wait"} /\ ReadReady

\* bytesToHex of part_000, called on the value before it is tested:
\* Array.from(undefined) throws
BytesToHexThrows(value) == value.t = "undefined"

openbltMagicNumber == << 80, 0, 73, 0 >>

\* checkOpenBLT without its try and catch: the rejection of the race, and
\* the TypeError of bytesToHex, reach the caller
checkOpenBLT_NoCatch(v, r) ==
    IF r.kind \in {"timeout", "error"} \/ (v = "binary" /\ BytesToHexThrows(r.value))
    THEN [state |-> "Rejected", major |-> Undefined, minor |-> Undefined]
    ELSE IF r.done \/ Falsy(r.value) \/ LengthOf(r.value) < 8 THEN NotDetected
    ELSE IF \E i \in 0..3 :
               StrictNotEqual(At(r.value, i), Number(openbltMagicNumber[i + 1]))
         THEN NotDetected
    ELSE BootloaderDetected(At(r.value, 4), At(r.value, 5))

\* checkOpenBLT testing the chunk for the length of the magic number only
checkOpenBLT_MagicLengthOnly(v, r) ==
    IF r.kind \in {"timeout", "error"} THEN NotDetected
    ELSE IF v = "binary" /\ BytesToHexThrows(r.value) THEN NotDetected
    ELSE IF r.done \/ Falsy(r.value) \/ LengthOf(r.value) < 4 THEN NotDetected
    ELSE IF \E i \in 0..3 :
               StrictNotEqual(At(r.value, i), Number(openbltMagicNumber[i + 1]))
         THEN NotDetected
    ELSE BootloaderDetected(At(r.value, 4), At(r.value, 5))

\* the classification of checkOpenBLT from the outcome r of its race
checkOpenBLT(v, r) ==
    IF r.kind \in {"timeout", "error"} THEN NotDetected
    ELSE IF v = "binary" /\ BytesToHexThrows(r.value) THEN NotDetected
    ELSE IF r.done \/ Falsy(r.value) \/ LengthOf(r.value) < 8 THEN NotDetected
    ELSE IF \E i \in 0..3 :
               StrictNotEqual(At(r.value, i), Number(openbltMagicNumber[i + 1]))
         THEN NotDetected
    ELSE BootloaderDetected(At(r.value, 4), At(r.value, 5))

\* ------------------------------------------------------------------------
\* connectAndSendMessage after its awaits
\* ------------------------------------------------------------------------

\* What follows getSignature in part_000 (lines 206-216, then 257-278): both
\* locks are released, port.readable is piped into a TextDecoderStream, and
\* port.writable.pipeTo(...) is called.  A WritableStream has no pipeTo, so
\* the call throws a TypeError; the handler's catch and finally run and the
\* listening loop of line 246 is not entered.
AfterSignature(sig) ==
    /\ signature' = sig
    /\ locks' = [readers |-> 1, writers |-> 0, pending |-> 0]
    /\ caught' = "TypeError"
    /\ pc' = "ended"

\* getSignature: const signaturePacket = makeCrc32Packet(0x41)
signaturePacket == makeCrc32Packet(65, <<>>)

\* AfterProbe with the request written but not awaited: the read of the
\* length is issued while the write is still in flight
AfterProbe_NoAwaitWrite(result) ==
    /\ probe' = result
    /\ IF variant = "binary"
       THEN IF result.state = "NotDetected"
            THEN /\ txPending' = signaturePacket
                 /\ locks' = [readers |-> 1, writers |-> 1, pending |-> 0]
                 /\ pc' = "len_wait"
                 /\ caught' = caught
            ELSE /\ txPending' = txPending
                 /\ locks' = [readers |-> 1, writers |-> 0, pending |-> 0]
                 /\ pc' = "ended"
                 /\ caught' = "TypeError"
       ELSE /\ txPending' = txPending
            /\ caught' = caught
            /\ locks' = [locks EXCEPT !.pending =
                             IF probeRace' = "timeout" THEN @ ELSE @ - 1]
            /\ pc' = IF result.state = "NotDetected"
                     THEN "hello_write_wait" ELSE "streaming"

\* What follows checkOpenBLT.
\* part_000 (lines 192-241): the locks are released, which also drops a read
\* that lost its race; without a bootloader getSignature starts, builds its
\* request and awaits writer.write; with one, the pipes are set up as above.
\* script.js (lines 112-127): without a bootloader "Hello, World!" is written
\* to the writer of a TextEncoderStream whose readable side nobody reads and
\* that is not connected to the port: the write stays pending and no byte
\* reaches the port; with one, the listening loop is entered.
AfterProbe(result) ==
    /\ probe' = result
    /\ IF variant = "binary"
       THEN IF result.state = "NotDetected"
            THEN /\ txPending' = signaturePacket
                 /\ locks' = [readers |-> 1, writers |-> 1, pending |-> 0]
                 /\ pc' = "sig_write_wait"
                 /\ caught' = caught
            ELSE /\ txPending' = txPending
                 /\ locks' = [readers |-> 1, writers |-> 0, pending |-> 0]
                 /\ pc' = "ended"
                 /\ caught' = "TypeError"
       ELSE /\ txPending' = txPending
            /\ caught' = caught
            /\ locks' = [locks EXCEPT !.pending =
                             IF probeRace' = "timeout" THEN @ ELSE @ - 1]
            /\ pc' = IF result.state = "NotDetected"
                     THEN "hello_write_wait" ELSE "streaming"

\* the click handler up to the race of checkOpenBLT: the port is opened, the
\* read is issued and the 500 ms timer is armed
Connect ==
    /\ pc = "idle"
    /\ pc' = "probe_wait"
    /\ probeTimer' = "armed"
    /\ wire' = device.pre
    /\ locks' = [readers |-> 1, writers |-> IF variant = "binary" THEN 1 ELSE 0,
                 pending |-> 1]
    /\ UNCHANGED << envVars, rxErrored, rxQueue, rxClosed, lenTimer, probeRace, probeChunk,
                    probe, txPending, txLog, sigVars, sigRead, signature, caught >>

\* the handshake is under way
Running == pc \in {"probe_wait", "sig_write_wait", "len_wait", "body_wait"}

\* the transport hands over the next k bytes as one chunk
Deliver(k) ==
    /\ Running
    /\ ~Runnable
    /\ ~rxClosed
    /\ ~rxErrored
    /\ Len(rxQueue) < MaxQueue
    /\ k <= Len(wire)
    /\ rxQueue' = Append(rxQueue, SubSeq(wire, 1, k))
    /\ wire' = SubSeq(wire, k + 1, Len(wire))
    /\ UNCHANGED << envVars, rxErrored, locks, rxClosed, pc, probeTimer, lenTimer, probeRace,
                    probeChunk, probe, txPending, txLog, sigVars, sigRead,
                    signature, caught >>

\* the stream ends
DeviceClose ==
    /\ Running
    /\ ~Runnable
    /\ ~rxClosed
    /\ ~rxErrored
    /\ rxClosed' = TRUE
    /\ UNCHANGED << envVars, rxErrored, locks, wire, rxQueue, pc, probeTimer, lenTimer, probeRace,
                    probeChunk, probe, txPending, txLog, sigVars, sigRead,
                    signature, caught >>

\* the port reports an error (the device is lost, a break, an overrun): the
\* readable stream is errored, its queue is dropped, and from now on every
\* read is rejected
DeviceError ==
    /\ Running
    /\ ~Runnable
    /\ ~rxClosed
    /\ ~rxErrored
    /\ rxErrored' = TRUE
    /\ rxQueue' = <<>>
    /\ UNCHANGED << envVars, locks, wire, rxClosed, pc, probeTimer, lenTimer,
                    probeRace, probeChunk, probe, txPending, txLog, sigVars,
                    sigRead, signature, caught >>

\* checkOpenBLT: the read wins the race
ProbeRead ==
    /\ pc = "probe_wait"
    /\ ReadReady
    /\ probeRace' = IF ReadResult.kind = "error" THEN "error"
                    ELSE IF ReadResult.done THEN "done" ELSE "chunk"
    /\ probeChunk' = IF rxQueue # <<>> THEN Head(rxQueue) ELSE <<>>
    /\ rxQueue' = IF rxQueue # <<>> THEN Tail(rxQueue) ELSE rxQueue
    /\ AfterProbe(checkOpenBLT(variant, ReadResult))
    /\ UNCHANGED << envVars, rxErrored, wire, rxClosed, probeTimer, lenTimer, txLog,
                    sigVars, sigRead, signature >>

\* the timer fires, but the handler awaits the read alone
ProbeTimerFire_ReadOnly ==
    /\ probeTimer = "armed"
    /\ ~Runnable
    /\ probeTimer' = "fired"
    /\ UNCHANGED << envVars, rxErrored, locks, wire, rxQueue, rxClosed, pc, lenTimer, probeRace,
                    probeChunk, probe, txPending, txLog, sigVars, sigRead,
                    signature, caught >>

\* the timer of checkOpenBLT fires: it wins the race if the race is still on,
\* and has no effect otherwise
ProbeTimerFire ==
    /\ probeTimer = "armed"
    /\ ~Runnable
    /\ probeTimer' = "fired"
    /\ IF pc = "probe_wait"
       THEN /\ probeRace' = "timeout"
            /\ AfterProbe(checkOpenBLT(variant, TimedOut))
       ELSE UNCHANGED << probeRace, probe, txPending, pc, caught, locks >>
    /\ UNCHANGED << envVars, rxErrored, wire, rxQueue, rxClosed, lenTimer, probeChunk,
                    txLog, sigVars, sigRead, signature >>

\* getSignature: the port accepts the request; the device answers it; the
\* read of the length is issued and its 500 ms timer armed
WriteAccepted ==
    /\ pc = "sig_write_wait"
    /\ txLog' = Append(txLog, txPending)
    /\ txPending' = <<>>
    /\ wire' = IF rxClosed THEN wire ELSE wire \o device.resp
    /\ lenTimer' = "armed"
    /\ locks' = [locks EXCEPT !.pending = @ + 1]
    /\ pc' = "len_wait"
    /\ UNCHANGED << envVars, rxErrored, rxQueue, rxClosed, probeTimer, probeRace,
                    probeChunk, probe, sigVars, sigRead, signature, caught >>

\* getSignature: the port rejects the write of the request; the catch of
\* getSignature returns null before any read is issued
WriteRejected ==
    /\ pc = "sig_write_wait"
    /\ txPending' = <<>>
    /\ sigRead' = [stage |-> "write", how |-> "error"]
    /\ AfterSignature(Null)
    /\ UNCHANGED << envVars, rxErrored, wire, rxQueue, rxClosed, probeTimer,
                    lenTimer, probeRace, probeChunk, probe, txLog, sigVars >>

\* getSignature gives up on the length: bytesToHex throws on undefined, or
\* lengthDone || !lengthBytes || lengthBytes.length < 2
LengthFails(r) ==
    r.kind = "error" \/ BytesToHexThrows(r.value) \/ r.done \/ Falsy(r.value) \/ LengthOf(r.value) < 2

\* new Uint8Array(n)
Zeros(n) == [i \in 1..n |-> 0]

\* getSignature: the read of the length wins the race
LenRead ==
    /\ pc = "len_wait"
    /\ ReadReady
    /\ rxQueue' = IF rxQueue # <<>> THEN Tail(rxQueue) ELSE rxQueue
    /\ sigRead' = [stage |-> "length",
                   how |-> IF ReadResult.kind = "error" THEN "error"
                           ELSE IF ReadResult.done THEN "done" ELSE "chunk"]
    /\ lenChunk' = IF rxQueue # <<>> THEN Head(rxQueue) ELSE <<>>
    /\ IF LengthFails(ReadResult)
       THEN /\ AfterSignature(Null)
            /\ UNCHANGED bodyVars
       ELSE /\ length' = GetUint16LE(ReadResult.value.v)
            /\ responseBytes' = <<>>
            /\ bytesRead' = 0
            /\ bodyChunks' = <<>>
            /\ bodyCount' = 0
            /\ pc' = "body_wait"
            /\ UNCHANGED << signature, caught, locks >>
    /\ UNCHANGED << envVars, rxErrored, wire, rxClosed, probeTimer, lenTimer, probeRace,
                    probeChunk, probe, txPending, txLog >>

\* the timer of getSignature fires
LenTimerFire ==
    /\ lenTimer = "armed"
    /\ probeTimer # "armed"
    /\ ~Runnable
    /\ lenTimer' = "fired"
    /\ IF pc = "len_wait"
       THEN /\ sigRead' = [stage |-> "length", how |-> "timeout"]
            /\ AfterSignature(Null)
       ELSE UNCHANGED << sigRead, signature, caught, pc, locks >>
    /\ UNCHANGED << envVars, rxErrored, wire, rxQueue, rxClosed, probeTimer, probeRace,
                    probeChunk, probe, txPending, txLog, sigVars >>

\* the body loop without its test of the read
BodyFails_Never(r) == FALSE

\* getSignature gives up on the body: the read is rejected, or done || !value
BodyFails(r) == r.kind = "error" \/ r.done \/ Falsy(r.value)

\* value.slice(0, k) with k > 0
Slice(b, k) == SubSeq(b, 1, Min(Len(b), k))

\* The Uint8Array(length + 4) is held as the bytes written to it so far: the
\* loop writes at offset bytesRead only, so they are the first
\* Len(responseBytes) elements of the array, and the elements behind them
\* are the zeroes new Uint8Array(n) put there (ResponseArray is the array).

Max(a, b) == IF a > b THEN a ELSE b

\* set without its offset: every chunk is written at the start of the array
SetBytes_AtStart(written, src, offset) ==
    [i \in 1..Max(Len(written), Len(src)) |->
        IF i <= Len(src) THEN src[i] ELSE written[i]]

\* responseBytes.set(src, offset), for an offset within the bytes written
SetBytes(written, src, offset) ==
    [i \in 1..Max(Len(written), offset + Len(src)) |->
        IF i > offset /\ i <= offset + Len(src) THEN src[i - offset] ELSE written[i]]

\* the whole array
ResponseArray == responseBytes \o Zeros((length + 4) - Len(responseBytes))

\* getSignature: one read of the body loop is settled
BodyRead ==
    /\ pc = "body_wait"
    /\ ReadReady
    /\ rxQueue' = IF rxQueue # <<>> THEN Tail(rxQueue) ELSE rxQueue
    /\ sigRead' = [stage |-> "body",
                   how |-> IF ReadResult.kind = "error" THEN "error"
                           ELSE IF ReadResult.done THEN "done" ELSE "chunk"]
    /\ IF BodyFails(ReadResult)
       THEN /\ AfterSignature(Null)
            /\ UNCHANGED sigVars
       ELSE /\ responseBytes' =
                 SetBytes(responseBytes,
                          Slice(ReadResult.value.v, (length + 4) - bytesRead),
                          bytesRead)
            /\ bytesRead' = bytesRead + LengthOf(ReadResult.value)
            /\ bodyChunks' = bodyChunks \o ReadResult.value.v
            /\ bodyCount' = bodyCount + 1
            /\ UNCHANGED << lenChunk, length >>
            /\ IF bytesRead' < length + 4
               THEN UNCHANGED << pc, signature, caught, locks >>
               ELSE AfterSignature(String(TextDecode(SubSeq(responseBytes', 1, length))))
    /\ UNCHANGED << envVars, rxErrored, wire, rxClosed, probeTimer, lenTimer, probeRace,
                    probeChunk, probe, txPending, txLog >>

Next ==
    \/ Connect
    \/ \E k \in 1..MaxChunk : Deliver(k)
    \/ DeviceClose
    \/ DeviceError
    \/ ProbeRead
    \/ ProbeTimerFire
    \/ WriteAccepted
    \/ WriteRejected
    \/ LenRead
    \/ LenTimerFire
    \/ BodyRead

Spec == Init /\ [][Next]_vars

\* The scheduling the platform guarantees: a continuation that can run does
\* run, an armed timer fires, the link accepts a write.  Nothing obliges the
\* device to send or to close.
Fairness ==
    /\ WF_vars(Connect)
    /\ WF_vars(ProbeRead)
    /\ WF_vars(ProbeTimerFire)
    /\ WF_vars(WriteAccepted)
    /\ WF_vars(LenRead)
    /\ WF_vars(LenTimerFire)
    /\ WF_vars(BodyRead)

FairSpec == Spec /\ Fairness

TypeOK ==
    /\ pc \in {"idle", "probe_wait", "sig_write_wait", "len_wait", "body_wait",
               "hello_write_wait", "streaming", "ended"}
    /\ probeTimer \in {"idle", "armed", "fired"}
    /\ lenTimer \in {"idle", "armed", "fired"}
    /\ Len(responseBytes) <= length + 4
    /\ Len(responseBytes) = Min(bytesRead, length + 4) \/ pc \notin {"body_wait"}
    /\ locks \in [readers : 0..2, writers : 0..2, pending : 0..2]

\* ------------------------------------------------------------------------
\* Calls of crc32.js on their own: calculateCrc32(data) and
\* makeCrc32Packet(command, payload), the arguments drawn from bounded sets
\* ------------------------------------------------------------------------

\* longest payload and longest data of the calls, the oversized payload apart
MaxPayload == 3

CodecBytes == {0, 49, 255}

CodecCommands == {0, 65, 255}

\* the byte sequences of at most n bytes
BytesUpTo(n) == UNION {[1..k -> CodecBytes] : k \in 0..n}

\* the shortest payload whose length + 1 does not fit the 16-bit length field
OversizedPayload == Zeros(Half - 1)

handshakeVars ==
    << variant, device, wire, rxQueue, rxClosed, rxErrored, pc, probeTimer, lenTimer,
       probeRace, probeChunk, probe, txPending, txLog, locks, lenChunk, length,
       responseBytes, bytesRead, sigRead, bodyChunks, bodyCount, signature,
       caught >>

CodecInit ==
    /\ variant = "binary"
    /\ device = [pre |-> <<>>, resp |-> <<>>]
    /\ Idle
    /\ ws = NoSession
    /\ \/ codec \in [call : {"calculateCrc32"}, command : {0},
                     data : BytesUpTo(MaxPayload), result : {Undefined}]
       \/ codec \in [call : {"makeCrc32Packet"}, command : CodecCommands,
                     data : BytesUpTo(MaxPayload), result : {Undefined}]
       \/ codec \in [call : {"makeCrc32Packet"}, command : {0},
                     data : {OversizedPayload}, result : {Undefined}]

\* calculateCrc32(data) returns
CallCalculateCrc32 ==
    /\ codec.call = "calculateCrc32"
    /\ codec.result = Undefined
    /\ codec' = [codec EXCEPT !.result = Number(calculateCrc32(codec.data))]
    /\ UNCHANGED << handshakeVars, ws >>

\* makeCrc32Packet(command, payload) returns
CallMakeCrc32Packet ==
    /\ codec.call = "makeCrc32Packet"
    /\ codec.result = Undefined
    /\ codec' = [codec EXCEPT !.result = Bytes(makeCrc32Packet(codec.command, codec.data))]
    /\ UNCHANGED << handshakeVars, ws >>

CodecNext == CallCalculateCrc32 \/ CallMakeCrc32Packet

CodecSpec == CodecInit /\ [][CodecNext]_vars

\* ------------------------------------------------------------------------
\* The session of src/www/webserial/index.js: connectAndSendMessage with its
\* read loop, and the two write functions it installs on the window
\* ------------------------------------------------------------------------

\* TextEncoder.encode of one code unit (no surrogates among the inputs)
EncodeUnit(c) ==
    IF c < 128 THEN << c >>
    ELSE IF c < 2048 THEN << 192 + (c \div 64), 128 + (c % 64) >>
    ELSE << 224 + (c \div 4096), 128 + ((c \div 64) % 64), 128 + (c % 64) >>

RECURSIVE TextEncode(_)
TextEncode(cs) ==
    IF cs = <<>> THEN <<>> ELSE EncodeUnit(Head(cs)) \o TextEncode(Tail(cs))

\* arguments of webSerialWriteBytes
WsBytes == { << 1 >>, << 2, 3 >> }

\* arguments of webSerialWriteString: "A", "é"
WsStrings == { << 65 >>, << 233 >> }

\* chunks the port hands to the read loop
WsChunks == { << 7 >>, << 8, 9 >> }

WsInit ==
    /\ variant = "binary"
    /\ device = [pre |-> <<>>, resp |-> <<>>]
    /\ Idle
    /\ codec = NoCall
    /\ ws = NoSession

\* connectAndSendMessage up to the first reader.read(): the port is opened,
\* the flag is set, the reader is taken and the write functions are defined
WsConnect ==
    /\ ws.loop = "none"
    /\ ws' = [ws EXCEPT !.connected = TRUE, !.readerLocked = TRUE, !.loop = "reading"]
    /\ UNCHANGED << handshakeVars, codec >>

\* the read loop takes a chunk: it is pushed and the next read is issued
WsChunkRead(chunk) ==
    /\ ws.loop = "reading"
    /\ Len(ws.pendingWebSerialBytes) < MaxPending
    /\ ws' = [ws EXCEPT !.pendingWebSerialBytes = Append(@, chunk)]
    /\ UNCHANGED << handshakeVars, codec >>

\* the read reports done: break, and connectAndSendMessage returns
WsReadDone ==
    /\ ws.loop = "reading"
    /\ ws' = [ws EXCEPT !.loop = "returned"]
    /\ UNCHANGED << handshakeVars, codec >>

\* the read is rejected: the catch clears the flag; writer and reader of the
\* function scope are undefined (the reader of the loop is a const of the
\* try block), so no lock is released
WsReadRejected ==
    /\ ws.loop = "reading"
    /\ ws' = [ws EXCEPT !.loop = "caught", !.connected = FALSE]
    /\ UNCHANGED << handshakeVars, codec >>

\* a write function is called with the encoded bytes: it returns at once
\* when the flag is not set; getWriter throws when the stream is locked;
\* else the lock is taken and writer.write awaited
WriteCall(i, bytes) ==
    /\ ws.loop # "none"
    /\ ws.calls[i].pc = "idle"
    /\ \A j \in 1..(i - 1) : ws.calls[j].pc # "idle"
    /\ IF ~ws.connected
       THEN ws' = [ws EXCEPT !.calls[i].pc = "resolved"]
       ELSE IF ws.writerLocked
       THEN ws' = [ws EXCEPT !.calls[i].pc = "rejected"]
       ELSE ws' = [ws EXCEPT !.calls[i] = [pc |-> "writing", data |-> bytes,
                                           acquired |-> TRUE, released |-> FALSE],
                             !.writerLocked = TRUE]
    /\ UNCHANGED << handshakeVars, codec >>

webSerialWriteString(i, data) == WriteCall(i, TextEncode(data))

webSerialWriteBytes(i, data) == WriteCall(i, data)

\* the port accepts the write: writer.releaseLock() and the call resolves
WsWriteAccepted(i) ==
    /\ ws.calls[i].pc = "writing"
    /\ ws' = [ws EXCEPT !.portLog = Append(@, ws.calls[i].data),
                        !.writerLocked = FALSE,
                        !.calls[i].released = TRUE,
                        !.calls[i].pc = "resolved"]
    /\ UNCHANGED << handshakeVars, codec >>

\* the port rejects the write (the device is gone): await throws, the call
\* is rejected and the statement after the await is not reached
WsWriteRejected(i) ==
    /\ ws.calls[i].pc = "writing"
    /\ ws' = [ws EXCEPT !.calls[i].pc = "rejected"]
    /\ UNCHANGED << handshakeVars, codec >>

WsNext ==
    \/ WsConnect
    \/ \E chunk \in WsChunks : WsChunkRead(chunk)
    \/ WsReadDone
    \/ WsReadRejected
    \/ \E i \in 1..MaxCalls : \E data \in WsStrings : webSerialWriteString(i, data)
    \/ \E i \in 1..MaxCalls : \E data \in WsBytes : webSerialWriteBytes(i, data)
    \/ \E i \in 1..MaxCalls : WsWriteAccepted(i)
    \/ \E i \in 1..MaxCalls : WsWriteRejected(i)

WsSpec == WsInit /\ [][WsNext]_vars

\* ------------------------------------------------------------------------
\* Properties
\* ------------------------------------------------------------------------

\* C1: checkOpenBLT answers "not detected" when its timer wins the race, when
\* the read reports the end of the stream, and when the chunk read holds
\* fewer than 8 bytes, whatever those bytes are.
C1_NotDetectedOnTimeoutEndOrShort ==
    (\/ probeRace = "timeout"
     \/ probeRace = "done"
     \/ (probeRace = "chunk" /\ Len(probeChunk) < 8))
    => probe.state = "NotDetected"

\* a chunk shorter than 8 bytes that starts with the magic number was read
C1_Witness ==
    /\ probeRace = "chunk"
    /\ Len(probeChunk) \in 4..7
    /\ SubSeq(probeChunk, 1, 4) = openbltMagicNumber
    /\ probe.state = "NotDetected"

\* C2: for every chunk of at least 8 bytes that settles the race of
\* checkOpenBLT, the bootloader is detected exactly when bytes 0..3 are
\* 50 00 49 00, and the version reported is byte 4 and byte 5; bytes 6 and 7
\* play no part.
C2_DetectedIffMagic ==
    (probeRace = "chunk" /\ Len(probeChunk) >= 8)
    => /\ (probe.state = "BootloaderDetected")
            <=> (SubSeq(probeChunk, 1, 4) = << 80, 0, 73, 0 >>)
       /\ probe.state = "BootloaderDetected"
            => /\ probe.major = Number(probeChunk[5])
               /\ probe.minor = Number(probeChunk[6])

\* C3: once the timer of checkOpenBLT has fired, checkOpenBLT has answered:
\* it waits for the transport no longer than its timer.
C3_ProbeAnsweredWhenTimerFired ==
    probeTimer = "fired" => probe.state # "Probing"

\* the device stayed silent and the timer settled the race
C3_Witness ==
    /\ probeTimer = "fired"
    /\ probeRace = "timeout"
    /\ probe.state = "NotDetected"

\* C4: once the bootloader is detected, the handler is in its listening loop
\* and no identity request has been or is being written.
C4_DetectedThenStreaming ==
    probe.state = "BootloaderDetected"
    => (pc = "streaming" /\ txLog = <<>> /\ txPending = <<>>)

\* the identity request on the wire: length 1, command 0x41, CRC-32 of "A"
IdentityRequestFrame == << 1, 0, 65, 139, 158, 217, 211 >>

\* C5: in the binary handler, when no bootloader is detected exactly one
\* identity request (command 0x41, no payload) is written, and the read of
\* the response length is issued only after the port has accepted it; when
\* the port rejects the write, no read is issued.
C5_OneRequestBeforeRead ==
    variant = "binary"
    => /\ probe.state = "NotDetected"
            => \/ (pc = "sig_write_wait" /\ txPending = IdentityRequestFrame
                     /\ txLog = <<>>)
               \/ (pc # "sig_write_wait" /\ txPending = <<>>
                     /\ txLog = << IdentityRequestFrame >>)
               \/ (pc = "ended" /\ txPending = <<>> /\ txLog = <<>>
                     /\ sigRead = [stage |-> "write", how |-> "error"])
       /\ (pc \in {"len_wait", "body_wait"} \/ lenTimer # "idle"
             \/ sigRead.stage \in {"length", "body"})
            => txLog = << IdentityRequestFrame >>

\* the request has been accepted and the read of the length is pending
C5_Witness ==
    /\ variant = "binary"
    /\ probe.state = "NotDetected"
    /\ pc = "len_wait"
    /\ txLog = << IdentityRequestFrame >>

\* C6: whatever the outcome of the identity exchange, the handler then is in
\* its listening loop.
C6_IdentityOutcomeThenStreaming ==
    (variant = "binary" /\ signature # Undefined) => pc = "streaming"

\* C7: a device that sends nothing unprompted and answers the request with a
\* well-formed response has its text received, however the transport splits
\* the response, once the whole response has been handed to the handler
\* within the deadlines.
C7_WellFormedResponseReceived ==
    (/\ variant = "binary"
     /\ device.pre = <<>>
     /\ device.resp = WellFormedResponse
     /\ txLog # <<>>
     /\ wire = <<>>
     /\ rxQueue = <<>>
     /\ ~rxClosed
     /\ sigRead.how # "timeout")
    => signature = String(IdentityText)

\* C8: the read of the identity body does not wait for ever: a handler
\* waiting in the body loop, with nothing more coming from the device, which
\* stays silent and does not close the stream, eventually leaves the loop.
C8_BodyReadBounded ==
    []((pc = "body_wait" /\ wire = <<>> /\ rxQueue = <<>>) => <>(pc # "body_wait"))

\* C9: while the chunks given to the body loop sum to at most length + 4
\* bytes, the bytes collected are the chunks joined in arrival order; when
\* they sum to exactly length + 4 the array holds exactly their
\* concatenation; and every step keeps the bytes collected so far as a
\* prefix of the bytes collected after it.
C9_BodyAccumulation ==
    /\ [](bytesRead <= length + 4
            => (responseBytes = bodyChunks /\ Len(responseBytes) = bytesRead))
    /\ []((bodyCount > 0 /\ bytesRead = length + 4)
            => (ResponseArray = bodyChunks /\ Len(ResponseArray) = length + 4))
    /\ [][Len(responseBytes) <= Len(responseBytes')
            /\ SubSeq(responseBytes', 1, Len(responseBytes)) = responseBytes]_vars

\* three chunks made up the 6 bytes of the body
C9_Witness ==
    /\ bodyCount = 3
    /\ length = 2
    /\ bytesRead = length + 4
    /\ responseBytes = bodyChunks
    /\ signature = String(IdentityText)

\* C10: when the stream ends during the body loop, getSignature returns null
\* at once; a text is returned only from a completely filled array.
C10_ClosedNeverShort ==
    /\ sigRead = [stage |-> "body", how |-> "done"]
         => (signature = Null /\ pc = "ended")
    /\ signature.t = "string"
         => (bytesRead >= length + 4 /\ Len(responseBytes) = length + 4)

\* the stream ended after some, but not all, bytes of the body
C10_Witness ==
    /\ sigRead = [stage |-> "body", how |-> "done"]
    /\ bytesRead > 0
    /\ bytesRead < length + 4
    /\ signature = Null

\* C11: no byte handed to a read of getSignature is lost: once the length
\* has been read, the bytes of the chunk that carried the prefix and of the
\* chunks given to the body loop are the 2 bytes of the prefix followed by
\* the bytes held in the array; the bytes behind the prefix, and the bytes
\* behind byte length + 4 of the body, are dropped by no read.
C11_NoExcessByteDropped ==
    Len(lenChunk) >= 2
    => lenChunk \o bodyChunks = SubSeq(lenChunk, 1, 2) \o responseBytes

\* C12: a race is settled by whichever of the read and the timer comes first,
\* and the loser has no later effect: a timer that fires after its race was
\* settled changes nothing but the timer; the classification of the probe,
\* once returned, never changes; and once the probe has timed out, the bytes
\* its abandoned read was waiting for are given to no later read, so that the
\* reads of getSignature receive bytes of the answer to the request only.
C12_RaceLoserHasNoEffect ==
    /\ [][(probeTimer' = "fired" /\ probeTimer = "armed" /\ pc # "probe_wait")
          => UNCHANGED << pc, probeRace, probeChunk, probe, txPending, txLog,
                          sigVars, sigRead, signature, caught, rxQueue >>]_vars
    /\ [][(lenTimer' = "fired" /\ lenTimer = "armed" /\ pc # "len_wait")
          => UNCHANGED << pc, probeRace, probeChunk, probe, txPending, txLog,
                          sigVars, sigRead, signature, caught, rxQueue >>]_vars
    /\ [][probe.state # "Probing" => probe' = probe]_vars
    /\ [](probeRace = "timeout"
          => /\ Len(lenChunk \o bodyChunks) <= Len(device.resp)
             /\ lenChunk \o bodyChunks
                    = SubSeq(device.resp, 1, Len(lenChunk \o bodyChunks)))

\* C13: at every moment at most one reader and at most one writer is held on
\* the streams of the port, and once the handshake is over, when the caller
\* writes its greeting and listens, no read issued during the handshake is
\* left pending on the reader the caller reads from.
C13_OneConsumer ==
    /\ locks.readers <= 1
    /\ locks.writers <= 1
    /\ pc \in {"hello_write_wait", "streaming", "ended"} => locks.pending = 0

\* CRC-32 of the standard (reflected polynomial EDB88320, initial value and
\* final xor FFFFFFFF), computed bit by bit on unsigned 32-bit numbers held
\* as pairs of 16-bit halves
RefShr1(w) == << w[1] \div 2, (w[2] \div 2) + (w[1] % 2) * 32768 >>

RefXor(a, b) == << XorBits(a[1], b[1], 16), XorBits(a[2], b[2], 16) >>

\* one bit: shift right, and xor the polynomial in when the bit shifted out
\* is 1
RefBit(w) ==
    IF w[2] % 2 = 1 THEN RefXor(RefShr1(w), << 60856, 33568 >>) ELSE RefShr1(w)

\* k bits; the test of next[2], which always holds, makes each step be
\* computed before the following one
RECURSIVE RefBits(_, _)
RefBits(w, k) ==
    IF k = 0 THEN w
    ELSE LET next == RefBit(w)
         IN  IF next[2] >= 0 THEN RefBits(next, k - 1) ELSE next

RECURSIVE RefBytes(_, _, _)
RefBytes(w, data, i) ==
    IF i > Len(data) THEN w
    ELSE LET next == RefBits(RefXor(w, << 0, data[i] >>), 8)
         IN  IF next[2] >= 0 THEN RefBytes(next, data, i + 1) ELSE next

RefCrc32(data) ==
    RefXor(RefBytes(<< 65535, 65535 >>, data, 1), << 65535, 65535 >>)

\* the last 4 bytes of a packet, read as an unsigned number, low byte first
TrailingUint32LE(packet) ==
    LET n == Len(packet)
    IN  << packet[n - 1] + 256 * packet[n], packet[n - 3] + 256 * packet[n - 2] >>

\* C14: for every command and every payload whose length + 1 fits 16 bits,
\* the packet makeCrc32Packet returns holds length + 7 bytes: the number
\* length + 1 in bytes 0..1, low byte first; the command in byte 2; the
\* payload, unchanged, from byte 3; and in the last 4 bytes, low byte first,
\* the CRC-32 of the command followed by the payload, which is what a
\* receiver recomputes to validate the frame.
C14_PacketLayout ==
    (/\ codec.call = "makeCrc32Packet"
     /\ codec.result # Undefined
     /\ 1 + Len(codec.data) < Half)
    => LET packet == codec.result.v
           n == Len(codec.data)
       IN  /\ Len(packet) = n + 7
           /\ GetUint16LE(SubSeq(packet, 1, 2)) = 1 + n
           /\ packet[3] = codec.command
           /\ SubSeq(packet, 4, 3 + n) = codec.data
           /\ TrailingUint32LE(packet) = RefCrc32(<< codec.command >> \o codec.data)

\* a packet was made of command 65 and a payload of 3 bytes
C14_Witness ==
    /\ codec.call = "makeCrc32Packet"
    /\ codec.result # Undefined
    /\ codec.command = 65
    /\ Len(codec.data) = 3

\* C15: makeCrc32Packet fails with PayloadTooLarge when the length of the
\* payload + 1 does not fit 16 bits, and returns no packet whose length field
\* differs from the length of the payload + 1.
C15_NoSilentWrap ==
    (codec.call = "makeCrc32Packet" /\ codec.result # Undefined)
    => IF 1 + Len(codec.data) >= Half
       THEN codec.result.t = "PayloadTooLarge"
       ELSE GetUint16LE(SubSeq(codec.result.v, 1, 2)) = 1 + Len(codec.data)

\* C16: for every byte sequence, calculateCrc32 returns a number in
\* 0 .. 2^32 - 1 that is the CRC-32 of the standard as it is computed bit by
\* bit; for the empty sequence it returns 0.
C16_UnsignedReferenceCrc ==
    (codec.call = "calculateCrc32" /\ codec.result # Undefined)
    => /\ codec.result.v[1] >= 0
       /\ codec.result.v = RefCrc32(codec.data)
       /\ codec.data = <<>> => codec.result.v = << 0, 0 >>

\* C17: the end of the stream during the handshake is terminal and is told
\* apart from a timeout: when the probe read reports it, the handler stops
\* without asking for the identity; when a read of getSignature reports it,
\* the result is not the null that a timeout gives.
C17_ClosedIsTerminal ==
    /\ probeRace = "done"
       => (pc = "ended" /\ txPending = <<>> /\ txLog = <<>> /\ sigRead.stage = "none")
    /\ (sigRead.how = "done" /\ signature # Undefined) => signature # Null

\* C18: checkOpenBLT and getSignature never throw to their caller: once its
\* race is settled, by a chunk of any content, the end of the stream, the
\* timer or a rejected read, checkOpenBLT has returned true or false; once
\* getSignature is over, after a rejected write, a rejected read, a timeout,
\* the end of the stream, a short chunk or any length, it has returned a
\* string or null.
C18_NeverThrows ==
    /\ probeRace # "none" => probe.state \in {"NotDetected", "BootloaderDetected"}
    /\ (variant = "binary" /\ probe.state = "NotDetected"
          /\ pc \notin {"sig_write_wait", "len_wait", "body_wait"})
       => signature.t \in {"null", "string"}
    /\ signature.t \in {"undefined", "null", "string"}

\* the probe read was rejected, and then the read of the length was
C18_Witness ==
    /\ probeRace = "error"
    /\ probe.state = "NotDetected"
    /\ sigRead = [stage |-> "length", how |-> "error"]
    /\ signature = Null

\* C20: every call of webSerialWriteBytes or webSerialWriteString that has
\* taken the lock of the writable stream has released it when the call is
\* settled, whether its write was accepted or rejected; so whenever no call
\* is awaiting its write the stream is unlocked.
C20_WriterLockReleased ==
    /\ \A i \in 1..MaxCalls :
           (ws.calls[i].pc \in {"resolved", "rejected"} /\ ws.calls[i].acquired)
           => ws.calls[i].released
    /\ (\A i \in 1..MaxCalls : ws.calls[i].pc # "writing") => ~ws.writerLocked

\* the data of the calls whose write the port accepted, in the order of the
\* calls
RECURSIVE AcceptedFrom(_)
AcceptedFrom(i) ==
    IF i > MaxCalls THEN <<>>
    ELSE (IF ws.calls[i].released THEN << ws.calls[i].data >> ELSE <<>>)
         \o AcceptedFrom(i + 1)

\* C21: a call of a write function made while another call is still awaiting
\* its write does not fail for the lock the other holds, and the data of the
\* calls reaches the port in the order of the calls.
C21_OverlappingWritesComplete ==
    /\ \A i, j \in 1..MaxCalls :
           (i # j /\ ws.calls[i].pc = "writing")
           => ~(ws.calls[j].pc = "rejected" /\ ~ws.calls[j].acquired)
    /\ ws.portLog = AcceptedFrom(1)

\* C22: window.webSerialConnected is set only while the read loop of the
\* session runs: once the loop has ended, by a read that reports done or by
\* an error that is caught, the flag is cleared and the lock of the reader
\* taken for the loop is released, so that no call of a write function made
\* afterwards reaches the port.
C22_FlagFollowsReadLoop ==
    /\ ws.connected => ws.loop = "reading"
    /\ ws.loop \in {"returned", "caught"} => ~ws.readerLocked

====
